---- MODULE Spec2Model ----
(***************************************************************************)
(* Maze geometry classification, spatial queries and the per-frame         *)
(* locomotion integrator of the 3D maze game (Maze.h, camera.h, main.cpp). *)
(*                                                                         *)
(* Numbers.  TLC has 32-bit integers and no floats, so                     *)
(*   - every position and height is an integer number of LENGTH UNITS, one *)
(*     length unit being 5.0f world units (the largest unit in which the   *)
(*     program's lengths 5, 15, 50, 100 and 300 are all whole): 100.0f is  *)
(*     20, 50.0f is 10, 15.0f is 3, 5.0f is 1, -300.0f is -60; a float     *)
(*     division whose result is stored as a position is kept to the unit;  *)
(*   - where the outcome of a comparison depends on float rounding (the    *)
(*     face normal against 0.7f and 0.5f, the barycentric weights against  *)
(*     0, the sphere test of checkTriangleCollision) the computation is    *)
(*     carried out in IEEE single precision on the world-unit values,      *)
(*     operation by operation as the code does;                            *)
(*   - Camera.Front and Camera.Right are unit vectors kept in fifths;      *)
(*   - FLT_MAX stands for std::numeric_limits<float>::max(): adding a      *)
(*     small number to it leaves it unchanged, and arithmetic on two such  *)
(*     values overflows to inf/NaN, for which every comparison is false.   *)
(***************************************************************************)
EXTENDS Integers, Sequences, FiniteSets, TLC

VARIABLES
    file,             \* the .obj file as tinyobj returns it: [parsed, faces]
    garbage,          \* the indeterminate bytes of Maze's uninitialised vec3 members
    maze,             \* the Maze object after its constructor
    camera,           \* Camera: Position, Front, Right, MovementSpeed
    noclip,           \* main.cpp global
    vPressed,         \* processInput's static
    victoryAchieved,  \* main.cpp global
    pc,               \* where main's render loop is: "input" (before processInput) or "events"
    last,             \* record of the call made in this iteration: what it read and did
    frames            \* number of processInput calls so far

vars == <<file, garbage, maze, camera, noclip, vPressed, victoryAchieved, pc, last, frames>>

----------------------------------------------------------------------------
(* glm vectors *)

V3(x, y, z) == [x |-> x, y |-> y, z |-> z]

V2(x, y) == [x |-> x, y |-> y]

Add3(a, b) == V3(a.x + b.x, a.y + b.y, a.z + b.z)

Sub3(a, b) == V3(a.x - b.x, a.y - b.y, a.z - b.z)

Sub2(a, b) == V2(a.x - b.x, a.y - b.y)

dot3(a, b) == a.x * b.x + a.y * b.y + a.z * b.z

cross(a, b) == V3(a.y * b.z - a.z * b.y, a.z * b.x - a.x * b.z, a.x * b.y - a.y * b.x)

Abs(n) == IF n < 0 THEN -n ELSE n

Sign(n) == IF n < 0 THEN -1 ELSE IF n > 0 THEN 1 ELSE 0

\* a / b in float, kept to the unit: rounded toward zero (b > 0)
fdiv(a, b) == Sign(a) * (Abs(a) \div b)

RECURSIVE GCD(_, _)
GCD(a, b) == IF b = 0 THEN Abs(a) ELSE GCD(b, Abs(a) % Abs(b))

\* floor(sqrt(n)) for n >= 0, by bisection on lo..hi (lo*lo <= n < (hi+1)*(hi+1))
RECURSIVE SqrtBetween(_, _, _)
SqrtBetween(n, lo, hi) ==
    IF lo >= hi THEN lo
    ELSE LET mid == (lo + hi + 1) \div 2
         IN IF mid * mid <= n THEN SqrtBetween(n, mid, hi) ELSE SqrtBetween(n, lo, mid - 1)

ISqrt(n) == SqrtBetween(n, 0, 46340)

----------------------------------------------------------------------------
(* floats at the edge of their range *)

FLT_MAX == 1000000

NaN == 0 - 2 * FLT_MAX

IsFinite(a) == a # NaN /\ -FLT_MAX < a /\ a < FLT_MAX

Finite3(a) == IsFinite(a.x) /\ IsFinite(a.y) /\ IsFinite(a.z)

\* a + b in float: FLT_MAX and -FLT_MAX absorb a small addend
FAdd(a, b) == IF IsFinite(a) THEN a + b ELSE a

\* a <= b in float: false when an operand is NaN
FLe(a, b) == a # NaN /\ b # NaN /\ a <= b

----------------------------------------------------------------------------
(* IEEE single precision, where the rounding decides the outcome             *)
(* (Maze::barycentric, glm::normalize).  A float is <<m, e>>, of value       *)
(* m * 2^e with |m| < 2^24; every operation rounds to nearest, ties to even. *)
(* A value an operation uses more than once is passed on as an operator      *)
(* parameter, so that it is computed once.                                   *)

f32(n) == <<n, 0>>          \* an integer of magnitude below 2^24, exactly

RECURSIVE BitLen(_)
BitLen(x) ==
    IF x = 0 THEN 0
    ELSE IF x >= 65536 THEN 16 + BitLen(x \div 65536)
    ELSE IF x >= 256 THEN 8 + BitLen(x \div 256)
    ELSE IF x >= 16 THEN 4 + BitLen(x \div 16)
    ELSE IF x >= 4 THEN 2 + BitLen(x \div 4)
    ELSE IF x >= 2 THEN 2 ELSE 1

\* sg * q * 2^e, with q rounded up when the discarded part r is more than half
\* of unit, or exactly half and q is odd
f32pack(sg, q, r, unit, e) ==
    LET up == (2 * r > unit) \/ (2 * r = unit /\ q % 2 = 1)
        q1 == IF up THEN q + 1 ELSE q
    IN IF q1 = 2^24 THEN <<sg * 2^23, e + 1>> ELSE <<sg * q1, e>>

\* sg * n * 2^e for 0 <= n < 2^31, rounded to 24 bits
f32round(sg, n, e) ==
    LET len == BitLen(n)
    IN IF len <= 24 THEN <<sg * n, e>>
       ELSE LET k == len - 24
            IN f32pack(sg, n \div 2^k, n % 2^k, 2^k, e + k)

\* the same value with 2^23 <= |m| < 2^24 (m # 0)
f32norm(a) ==
    LET k == 24 - BitLen(Abs(a[1]))
    IN IF k = 0 THEN a ELSE <<a[1] * 2^k, a[2] - k>>

f32neg(a) == <<-a[1], a[2]>>

\* the 48-bit product hi * 2^24 + lo of two mantissas, rounded to 24 bits
f32wide(sg, hi, lo, e, k) ==
    IF hi = 0 THEN <<sg * lo, e>>
    ELSE f32pack(sg, hi * 2^(24 - k) + (lo \div 2^k), lo % 2^k, 2^k, e + k)

f32mulLow(sg, hi, low, e) ==
    f32wide(sg, hi + (low \div 2^24), low % 2^24, e, BitLen(hi + (low \div 2^24)))

f32mulMid(sg, top, mid, bot, e) ==
    f32mulLow(sg, top + (mid \div 4096), (mid % 4096) * 4096 + bot, e)

\* the product by 12-bit halves: x = x1 * 4096 + x0, y = y1 * 4096 + y0
f32mulHalves(sg, x1, x0, y1, y0, e) ==
    f32mulMid(sg, x1 * y1, x1 * y0 + x0 * y1, x0 * y0, e)

f32mulAbs(sg, x, y, e) ==
    IF x < 4096 /\ y < 4096 THEN <<sg * x * y, e>>
    ELSE f32mulHalves(sg, x \div 4096, x % 4096, y \div 4096, y % 4096, e)

f32mul(a, b) == f32mulAbs(Sign(a[1]) * Sign(b[1]), Abs(a[1]), Abs(b[1]), a[2] + b[2])

f32roundSigned(sum, e) == f32round(Sign(sum), Abs(sum), e)

\* big + small for normalised operands d binades apart, the small one shifted
\* with three more bits: guard, round and sticky
f32addShifted(big, small, full, unit) ==
    f32roundSigned(big[1] * 8
                     + Sign(small[1]) * (IF full % unit # 0 /\ (full \div unit) % 2 = 0
                                         THEN (full \div unit) + 1
                                         ELSE full \div unit),
                   big[2] - 3)

f32addOrdered(big, small) ==
    IF big[2] - small[2] > 26 THEN big
    ELSE f32addShifted(big, small, Abs(small[1]) * 8, 2^(big[2] - small[2]))

f32addNorm(na, nb) == IF na[2] >= nb[2] THEN f32addOrdered(na, nb) ELSE f32addOrdered(nb, na)

f32add(a, b) ==
    IF a[1] = 0 THEN b
    ELSE IF b[1] = 0 THEN a
    ELSE IF a[2] = b[2] THEN f32roundSigned(a[1] + b[1], a[2])
    ELSE f32addNorm(f32norm(a), f32norm(b))

f32sub(a, b) == f32add(a, f32neg(b))

\* long division of x * 2^shift by y: n more bits of the quotient q, remainder r
RECURSIVE f32divBits(_, _, _, _)
f32divBits(q, r, y, n) ==
    IF n = 0 THEN [q |-> q, r |-> r]
    ELSE IF n >= 7 THEN f32divBits(q * 128 + ((r * 128) \div y), (r * 128) % y, y, n - 7)
    ELSE f32divBits(q * 2^n + ((r * 2^n) \div y), (r * 2^n) % y, y, 0)

f32divPack(sg, d, y, e) == f32pack(sg, d.q, d.r, y, e)

f32divAbs(sg, x, y, shift, e) ==
    f32divPack(sg, f32divBits(x \div y, x % y, y, shift), y, e - shift)

f32divNorm(sg, na, nb) ==
    f32divAbs(sg, Abs(na[1]), Abs(nb[1]), IF Abs(na[1]) >= Abs(nb[1]) THEN 23 ELSE 24,
              na[2] - nb[2])

\* b # 0
f32div(a, b) ==
    IF a[1] = 0 THEN <<0, 0>>
    ELSE f32divNorm(Sign(a[1]) * Sign(b[1]), f32norm(a), f32norm(b))

\* sqrt(a) for a > 0: the 24 bits of the root of n * 2^22, n the mantissa made
\* 25 or 26 bits long with an even exponent, one bit (two bits of n) at a time
RECURSIVE f32sqrtBits(_, _, _, _)
f32sqrtBits(n, i, root, rem) ==
    IF i > 24 THEN [root |-> root, rem |-> rem]
    ELSE LET pair  == IF i <= 13 THEN (n \div 4^(13 - i)) % 4 ELSE 0
             r     == rem * 4 + pair
             trial == root * 4 + 1
         IN IF r >= trial THEN f32sqrtBits(n, i + 1, root * 2 + 1, r - trial)
                          ELSE f32sqrtBits(n, i + 1, root * 2, r)

\* the root is above root + 1/2 exactly when the remainder exceeds root
f32sqrtPack(s, e) == f32pack(1, s.root, s.rem, 2 * s.root + 1, (e \div 2) - 11)

f32sqrtNorm(na) ==
    IF na[2] % 2 = 0 THEN f32sqrtPack(f32sqrtBits(4 * na[1], 1, 0, 0), na[2] - 2)
    ELSE f32sqrtPack(f32sqrtBits(2 * na[1], 1, 0, 0), na[2] - 1)

f32sqrt(a) == f32sqrtNorm(f32norm(a))

f32NaN == <<0, NaN>>

\* a > b and a < b: false when an operand is NaN
f32gt(a, b) == a[2] # NaN /\ b[2] # NaN /\ f32sub(a, b)[1] > 0

f32lt(a, b) == a[2] # NaN /\ b[2] # NaN /\ f32sub(a, b)[1] < 0

\* a >= 0
f32ge0(a) == a[2] # NaN /\ a[1] >= 0

\* std::abs(a) < 1e-6 (2^-20 < 1e-6 < 2^-19)
f32tiny(a) == a[1] = 0 \/ BitLen(Abs(a[1])) + a[2] <= -20

\* the nearest integer to a
f32int(a) ==
    IF a[2] >= 0 THEN a[1] * 2^a[2]
    ELSE IF a[2] < -25 THEN 0
    ELSE Sign(a[1]) * ((Abs(a[1]) + 2^(-a[2] - 1)) \div 2^(-a[2]))

----------------------------------------------------------------------------
(* program constants: lengths in length units (5.0f world units), the two    *)
(* slope thresholds as floats                                                *)

FLOOR_NORMAL_Y == <<11744051, -24>>   \* 0.7f, the float nearest to 0.7

\* a walkable-slope threshold above the floor threshold, 0.875f
MAX_WALKABLE_SLOPE_steeper == <<7, -3>>

MAX_WALKABLE_SLOPE == <<1, -1>>       \* 0.5f

expand == 20              \* 100.0f

EYE_HEIGHT == 10          \* 50.0f

MAX_STEP_HEIGHT == 3      \* 15.0f

WALL_RADIUS == 1          \* 5.0f

FAILSAFE_Y == -60         \* -300.0f

EXIT_RADIUS == 10         \* 50.0f

NOT_FOUND == -20000       \* -99999.0f

VOID_BELOW == -18000      \* -90000.0f

steps == 4

FIFTH == 5                \* 1.0f of a Camera.Front / Camera.Right component

----------------------------------------------------------------------------
(* Maze::loadModel *)

\* glm::cross, glm::dot and glm::normalize of vectors in world units, in single
\* precision; normalize(v) is v * (1 / sqrt(dot(v, v))), NaN for the zero vector
crossf(a, b) ==
    V3(f32sub(f32mul(a.y, b.z), f32mul(b.y, a.z)),
       f32sub(f32mul(a.z, b.x), f32mul(b.z, a.x)),
       f32sub(f32mul(a.x, b.y), f32mul(b.x, a.y)))

dotf(a, b) == f32add(f32add(f32mul(a.x, b.x), f32mul(a.y, b.y)), f32mul(a.z, b.z))

scale3(v, k) == V3(f32mul(v.x, k), f32mul(v.y, k), f32mul(v.z, k))

normalizeBy(v, d) ==
    IF d[1] = 0 THEN V3(f32NaN, f32NaN, f32NaN)
    ELSE scale3(v, f32div(f32(1), f32sqrt(d)))

normalize(v) == normalizeBy(v, dotf(v, v))

\* a vector of length units as a vector of floats in world units
world3(a) == V3(f32(5 * a.x), f32(5 * a.y), f32(5 * a.z))

centroidOf(v0, v1, v2) ==
    V3(fdiv(v0.x + v1.x + v2.x, 3), fdiv(v0.y + v1.y + v2.y, 3), fdiv(v0.z + v1.z + v2.z, 3))

\* Triangle tri of a face with fv = 3: vertices, face normal, centroid
faceTriangle(f) ==
    LET edge1 == world3(Sub3(f[2], f[1]))
        edge2 == world3(Sub3(f[3], f[1]))
    IN [v0 |-> f[1], v1 |-> f[2], v2 |-> f[3],
        normal |-> normalize(crossf(edge1, edge2)),
        centroid |-> centroidOf(f[1], f[2], f[3])]

\* the classification with >= in place of >
isFloor_atLeast(tri) ==
    tri.normal.y[2] # NaN /\ ~f32lt(tri.normal.y, FLOOR_NORMAL_Y)

isFloor(tri) == f32gt(tri.normal.y, FLOOR_NORMAL_Y)

\* the members before the constructor body runs: empty vectors, and vec3/float
\* members holding whatever the memory held (bounds and size are always
\* assigned by calculateBounds before they are read)
emptyMaze(g) ==
    [floorTriangles |-> <<>>, wallTriangles |-> <<>>, vertices |-> <<>>,
     startPosition |-> g.startPosition, exitPosition |-> g.exitPosition,
     modelSize |-> 0, minBounds |-> g.startPosition, maxBounds |-> g.exitPosition]

\* the loop over the faces of all shapes, from face number i
RECURSIVE loadFaces(_, _, _)
loadFaces(m, faces, i) ==
    IF i > Len(faces) THEN m
    ELSE LET f == faces[i]
         IN IF Len(f) # 3 THEN loadFaces(m, faces, i + 1)
            ELSE LET tri == faceTriangle(f)
                     m1  == IF isFloor(tri)
                            THEN [m EXCEPT !.floorTriangles = Append(@, tri)]
                            ELSE [m EXCEPT !.wallTriangles = Append(@, tri)]
                     m2  == [m1 EXCEPT !.vertices = @ \o f]
                 IN loadFaces(m2, faces, i + 1)

loadModel(m, f) == IF ~f.parsed THEN m ELSE loadFaces(m, f.faces, 1)

----------------------------------------------------------------------------
(* Maze::calculateBounds *)

Min(a, b) == IF a < b THEN a ELSE b

Max(a, b) == IF a > b THEN a ELSE b

RECURSIVE boundsLoop(_, _, _, _)
boundsLoop(vs, i, lo, hi) ==
    IF i > Len(vs) THEN [min |-> lo, max |-> hi]
    ELSE boundsLoop(vs, i + 1,
                    V3(Min(vs[i].x, lo.x), Min(vs[i].y, lo.y), Min(vs[i].z, lo.z)),
                    V3(Max(vs[i].x, hi.x), Max(vs[i].y, hi.y), Max(vs[i].z, hi.z)))

\* glm::distance of two points; inf (FLT_MAX here) when the subtraction overflows
distance3(a, b) ==
    IF Finite3(a) /\ Finite3(b)
    THEN LET d == Sub3(a, b) IN ISqrt(dot3(d, d))
    ELSE FLT_MAX

setBounds(m, b) ==
    [m EXCEPT !.minBounds = b.min, !.maxBounds = b.max,
              !.modelSize = distance3(b.min, b.max)]

calculateBounds(m) ==
    setBounds(m, boundsLoop(m.vertices, 1,
                            V3(FLT_MAX, FLT_MAX, FLT_MAX), V3(-FLT_MAX, -FLT_MAX, -FLT_MAX)))

----------------------------------------------------------------------------
(* Maze::addFloor *)

addTri(m, v0, v1, v2) ==
    [m EXCEPT !.floorTriangles =
                  Append(@, [v0 |-> v0, v1 |-> v1, v2 |-> v2,
                             normal |-> V3(f32(0), f32(1), f32(0)),
                             centroid |-> centroidOf(v0, v1, v2)]),
              !.vertices = @ \o <<v0, v1, v2>>]

\* the safety floor laid over the bounding box itself, without the margin
addFloor_noExpand(m) ==
    LET y  == m.minBounds.y
        lo == m.minBounds
        hi == m.maxBounds
        m1 == addTri(m, V3(lo.x, y, hi.z), V3(hi.x, y, hi.z), V3(hi.x, y, lo.z))
    IN addTri(m1, V3(lo.x, y, hi.z), V3(hi.x, y, lo.z), V3(lo.x, y, lo.z))

addFloor(m) ==
    LET y    == m.minBounds.y
        minX == FAdd(m.minBounds.x, -expand)
        maxX == FAdd(m.maxBounds.x, expand)
        minZ == FAdd(m.minBounds.z, -expand)
        maxZ == FAdd(m.maxBounds.z, expand)
        m1   == addTri(m, V3(minX, y, maxZ), V3(maxX, y, maxZ), V3(maxX, y, minZ))
    IN addTri(m1, V3(minX, y, maxZ), V3(maxX, y, minZ), V3(minX, y, minZ))

----------------------------------------------------------------------------
(* Maze::setRandomStartAndExit *)

EXIT_POSITION == V3(3, 79, -265)   \* glm::vec3(14.7148f, 396.287f, -1322.83f)

\* the loop taking a triangle that is as near as the nearest so far (d <= minStartDist)
RECURSIVE startLoop_lastOnTies(_, _, _)
startLoop_lastOnTies(m, i, st) ==
    IF i > Len(m.floorTriangles) THEN st
    ELSE LET tri == m.floorTriangles[i]
         IN IF FLe(5 * tri.centroid.y, FAdd(5 * m.minBounds.y, 1))
            THEN startLoop_lastOnTies(m, i + 1, st)
            ELSE LET d2 == tri.centroid.x * tri.centroid.x + tri.centroid.z * tri.centroid.z
                 IN IF st.unset \/ d2 <= st.minStartDist2
                    THEN startLoop_lastOnTies(m, i + 1, [startPosition |-> tri.centroid,
                                                         minStartDist2 |-> d2, unset |-> FALSE])
                    ELSE startLoop_lastOnTies(m, i + 1, st)

\* the loop over floorTriangles from index i; st = [startPosition, minStartDist]
\* where minStartDist is kept as its square, and unset while it is FLT_MAX
RECURSIVE startLoop(_, _, _)
startLoop(m, i, st) ==
    IF i > Len(m.floorTriangles) THEN st
    ELSE LET tri == m.floorTriangles[i]
         IN IF FLe(5 * tri.centroid.y, FAdd(5 * m.minBounds.y, 1))   \* + 1.0f world unit
            THEN startLoop(m, i + 1, st)
            ELSE LET d2 == tri.centroid.x * tri.centroid.x + tri.centroid.z * tri.centroid.z
                 IN IF st.unset \/ d2 < st.minStartDist2
                    THEN startLoop(m, i + 1, [startPosition |-> tri.centroid,
                                              minStartDist2 |-> d2, unset |-> FALSE])
                    ELSE startLoop(m, i + 1, st)

setRandomStartAndExit(m) ==
    IF m.floorTriangles = <<>> THEN m
    ELSE LET st == startLoop(m, 1, [startPosition |-> m.startPosition,
                                    minStartDist2 |-> 0, unset |-> TRUE])
         IN [m EXCEPT !.startPosition = [st.startPosition EXCEPT !.y = @ + EYE_HEIGHT],
                      !.exitPosition = EXIT_POSITION]

\* Maze::Maze (setupMesh and initExitMarker only fill GPU buffers)
Maze(f, g) == setRandomStartAndExit(addFloor(calculateBounds(loadModel(emptyMaze(g), f))))

----------------------------------------------------------------------------
(* Maze::barycentric, Maze::getFloorHeight *)

Finite2(a) == IsFinite(a.x) /\ IsFinite(a.y)

\* a coordinate in world units (one length unit is 5.0f), as a float
world(n) == f32(5 * n)

\* a float height in world units, to the nearest length unit
toUnits(h) == LET n == f32int(h) IN Sign(n) * ((Abs(n) + 2) \div 5)

\* glm::dot of two vec2 given in length units
dot2f(s, t) == f32add(f32mul(world(s.x), world(t.x)), f32mul(world(s.y), world(t.y)))

\* u = 1.0f - v - w
baryWeights(v, w) == [u |-> f32sub(f32sub(f32(1), v), w), v |-> v, w |-> w]

baryDivide(d00, d01, d11, d20, d21, denom) ==
    IF f32tiny(denom)
    THEN [u |-> f32(-1), v |-> f32(-1), w |-> f32(-1)]
    ELSE baryWeights(f32div(f32sub(f32mul(d11, d20), f32mul(d01, d21)), denom),
                     f32div(f32sub(f32mul(d00, d21), f32mul(d01, d20)), denom))

baryDots(d00, d01, d11, d20, d21) ==
    baryDivide(d00, d01, d11, d20, d21, f32sub(f32mul(d00, d11), f32mul(d01, d01)))

baryEdges(v0, v1, v2) ==
    baryDots(dot2f(v0, v0), dot2f(v0, v1), dot2f(v1, v1), dot2f(v2, v0), dot2f(v2, v1))

\* u, v, w in single precision.  With a vertex at +-FLT_MAX the differences
\* overflow and the weights are NaN.
barycentric(p, a, b, c) ==
    IF ~(Finite2(p) /\ Finite2(a) /\ Finite2(b) /\ Finite2(c))
    THEN [u |-> f32NaN, v |-> f32NaN, w |-> f32NaN]
    ELSE baryEdges(Sub2(b, a), Sub2(c, a), Sub2(p, a))

\* the loop keeping the height of the triangle it visited last
floorBest_latest(acc, height) == [bestY |-> height, found |-> TRUE]

\* the loop keeping the lowest height it met
floorBest_lowest(acc, height) ==
    IF ~acc.found \/ height < acc.bestY THEN [bestY |-> height, found |-> TRUE] ELSE acc

\* if (height > bestY): acc = [bestY, found]
floorBest(acc, height) ==
    IF height > acc.bestY THEN [bestY |-> height, found |-> TRUE] ELSE acc

\* if (u >= 0 && v >= 0 && w >= 0): the height is u*v0.y + v*v1.y + w*v2.y
floorVisit(tri, acc, bc) ==
    IF f32ge0(bc.u) /\ f32ge0(bc.v) /\ f32ge0(bc.w)
    THEN floorBest(acc, toUnits(f32add(f32add(f32mul(bc.u, world(tri.v0.y)),
                                              f32mul(bc.v, world(tri.v1.y))),
                                       f32mul(bc.w, world(tri.v2.y)))))
    ELSE acc

\* the loop over floorTriangles from index i; acc = [bestY, found]
RECURSIVE floorLoop(_, _, _, _, _)
floorLoop(tris, pos, checkSlope, i, acc) ==
    IF i > Len(tris) THEN acc
    ELSE IF checkSlope /\ f32lt(tris[i].normal.y, MAX_WALKABLE_SLOPE)
         THEN floorLoop(tris, pos, checkSlope, i + 1, acc)
         ELSE floorLoop(tris, pos, checkSlope, i + 1,
                        floorVisit(tris[i], acc,
                                   barycentric(V2(pos.x, pos.z),
                                               V2(tris[i].v0.x, tris[i].v0.z),
                                               V2(tris[i].v1.x, tris[i].v1.z),
                                               V2(tris[i].v2.x, tris[i].v2.z))))

\* if (!found) return -99999.0f; return bestY;
floorResult(r) == IF ~r.found THEN NOT_FOUND ELSE r.bestY

getFloorHeight(m, pos, checkSlope) ==
    floorResult(floorLoop(m.floorTriangles, pos, checkSlope, 1,
                          [bestY |-> -FLT_MAX, found |-> FALSE]))

----------------------------------------------------------------------------
(* Maze::checkTriangleCollision, Maze::checkWallCollision *)

\* In single precision on the world-unit values, as the code computes it.

EPSILON == <<-10737418, -30>>      \* -0.01f

f32abs(a) == <<Abs(a[1]), a[2]>>

\* a >= b and a <= b: false when an operand is NaN
f32ge(a, b) == a[2] # NaN /\ b[2] # NaN /\ f32sub(a, b)[1] >= 0

f32le(a, b) == a[2] # NaN /\ b[2] # NaN /\ f32sub(a, b)[1] <= 0

sub3f(a, b) == V3(f32sub(a.x, b.x), f32sub(a.y, b.y), f32sub(a.z, b.z))

\* return (s >= epsilon && t >= epsilon && (s + t) <= 1.0f - epsilon)
insideWithEpsilon(s, t) ==
    /\ f32ge(s, EPSILON)
    /\ f32ge(t, EPSILON)
    /\ f32le(f32add(s, t), f32sub(f32(1), EPSILON))

collideSolve(uu, uv, vv, wu, wv, D) ==
    IF f32tiny(D) THEN FALSE        \* std::abs(D) < 1e-6
    ELSE insideWithEpsilon(f32div(f32sub(f32mul(uv, wv), f32mul(vv, wu)), D),
                           f32div(f32sub(f32mul(uv, wu), f32mul(uu, wv)), D))

collideDots(uu, uv, vv, wu, wv) ==
    collideSolve(uu, uv, vv, wu, wv, f32sub(f32mul(uv, uv), f32mul(uu, vv)))

\* u = v1 - v0, v = v2 - v0, w = P - v0
collideInPlane(u, v, w) ==
    collideDots(dotf(u, u), dotf(u, v), dotf(v, v), dotf(w, u), dotf(w, v))

\* P = sphereCenter - dist * N
\* the test on the distance also rejecting a sphere that just touches the plane
collideAtDistance_touchMisses(sphereCenter, sphereRadius, v0, u, v, N, dist) ==
    IF f32ge(f32abs(dist), sphereRadius) THEN FALSE
    ELSE collideInPlane(u, v, sub3f(sub3f(sphereCenter, scale3(N, dist)), v0))

collideAtDistance(sphereCenter, sphereRadius, v0, u, v, N, dist) ==
    IF f32gt(f32abs(dist), sphereRadius)    \* std::abs(dist) > sphereRadius
    THEN FALSE
    ELSE collideInPlane(u, v, sub3f(sub3f(sphereCenter, scale3(N, dist)), v0))

collideWithNormal(sphereCenter, sphereRadius, v0, u, v, N) ==
    collideAtDistance(sphereCenter, sphereRadius, v0, u, v, N,
                      dotf(sub3f(sphereCenter, v0), N))

\* a triangle without area taken for a hit
collideWithCross_hitDegenerate(sphereCenter, sphereRadius, v0, u, v, c) ==
    IF c.x = 0 /\ c.y = 0 /\ c.z = 0
    THEN TRUE
    ELSE collideWithNormal(sphereCenter, sphereRadius, v0, u, v, normalize(crossf(u, v)))

\* with v1 - v0 and v2 - v0 parallel N, dist, P and w are NaN and D is 0: the
\* test on D returns false (and with it passed, s and t would be NaN and every
\* comparison false)
collideWithCross(sphereCenter, sphereRadius, v0, u, v, c) ==
    IF c.x = 0 /\ c.y = 0 /\ c.z = 0
    THEN FALSE
    ELSE collideWithNormal(sphereCenter, sphereRadius, v0, u, v, normalize(crossf(u, v)))

checkTriangleCollision(sphereCenter, sphereRadius, v0, v1, v2) ==
    collideWithCross(world3(sphereCenter), world(sphereRadius), world3(v0),
                     world3(Sub3(v1, v0)), world3(Sub3(v2, v0)),
                     cross(Sub3(v1, v0), Sub3(v2, v0)))

RECURSIVE wallLoop(_, _, _, _)
wallLoop(tris, position, radius, i) ==
    IF i > Len(tris) THEN FALSE
    ELSE IF checkTriangleCollision(position, radius, tris[i].v0, tris[i].v1, tris[i].v2)
         THEN TRUE
         ELSE wallLoop(tris, position, radius, i + 1)

checkWallCollision(m, position, radius) == wallLoop(m.wallTriangles, position, radius, 1)

----------------------------------------------------------------------------
(* Camera::ProcessKeyboard *)

\* vec * velocity for a unit vector kept in fifths
scaled(vec, velocity) ==
    V3(fdiv(vec.x * velocity, FIFTH), fdiv(vec.y * velocity, FIFTH), fdiv(vec.z * velocity, FIFTH))

ProcessKeyboard(cam, direction, deltaTime) ==
    LET velocity == cam.MovementSpeed * deltaTime
    IN IF direction = 0 THEN [cam EXCEPT !.Position = Add3(@, scaled(cam.Front, velocity))]
       ELSE IF direction = 1 THEN [cam EXCEPT !.Position = Sub3(@, scaled(cam.Front, velocity))]
       ELSE IF direction = 2 THEN [cam EXCEPT !.Position = Sub3(@, scaled(cam.Right, velocity))]
       ELSE IF direction = 3 THEN [cam EXCEPT !.Position = Add3(@, scaled(cam.Right, velocity))]
       ELSE cam

----------------------------------------------------------------------------
(* processInput (main.cpp) *)

\* the four glfwGetKey / ProcessKeyboard lines of a substep
moveWASD(cam, keys, subDeltaTime) ==
    LET c0 == IF "W" \in keys THEN ProcessKeyboard(cam, 0, subDeltaTime) ELSE cam
        c1 == IF "S" \in keys THEN ProcessKeyboard(c0, 1, subDeltaTime) ELSE c0
        c2 == IF "A" \in keys THEN ProcessKeyboard(c1, 2, subDeltaTime) ELSE c1
    IN IF "D" \in keys THEN ProcessKeyboard(c2, 3, subDeltaTime) ELSE c2

\* wallBranch undoing the move along the view axis only
wallBranch_zOnly(cam, stepOldPosition, oldFloorHeight) ==
    [Position |-> [cam.Position EXCEPT !.z = stepOldPosition.z],
     currentFloorHeight |-> oldFloorHeight]

\* "1. Parede": camera.Position = stepOldPosition
wallBranch(cam, stepOldPosition, oldFloorHeight) ==
    [Position |-> stepOldPosition, currentFloorHeight |-> oldFloorHeight]

\* voidBranch caching the answer of the failed floor query
voidBranch_cacheVoid(cam, stepOldPosition, oldFloorHeight) ==
    [Position |-> stepOldPosition, currentFloorHeight |-> NOT_FOUND]

\* voidBranch letting the actor step into the hole
voidBranch_keep(cam, stepOldPosition, oldFloorHeight) ==
    [Position |-> cam.Position, currentFloorHeight |-> oldFloorHeight]

\* "Se chao invalido (buraco/void)": camera.Position = stepOldPosition
voidBranch(cam, stepOldPosition, oldFloorHeight) ==
    [Position |-> stepOldPosition, currentFloorHeight |-> oldFloorHeight]

\* "Degrau muito alto": only Position.x and Position.z are assigned
stepTooHigh(cam, stepOldPosition, oldFloorHeight) ==
    [Position |-> [cam.Position EXCEPT !.x = stepOldPosition.x, !.z = stepOldPosition.z],
     currentFloorHeight |-> oldFloorHeight]

\* validStep updating the cache but not the height of the eye
validStep_noSnap(cam, newFloorHeight) ==
    [Position |-> cam.Position, currentFloorHeight |-> newFloorHeight]

\* "Valido"
validStep(cam, newFloorHeight) ==
    [Position |-> [cam.Position EXCEPT !.y = newFloorHeight + EYE_HEIGHT],
     currentFloorHeight |-> newFloorHeight]

\* "Logica de colisao e chao": the position and the cached floor height at the
\* end of a substep that started at stepOldPosition and moved the camera to cam,
\* with what the two tests returned (newFloorHeight is not computed after a hit)
floorLogic(cam, stepOldPosition, oldFloorHeight, newFloorHeight) ==
    [end |-> IF newFloorHeight < VOID_BELOW
             THEN voidBranch(cam, stepOldPosition, oldFloorHeight)
             ELSE IF newFloorHeight - oldFloorHeight > MAX_STEP_HEIGHT
                  THEN stepTooHigh(cam, stepOldPosition, oldFloorHeight)
                  ELSE validStep(cam, newFloorHeight),
     hitWall |-> FALSE, newFloorHeight |-> newFloorHeight]

collideAndSnap(m, cam, stepOldPosition, oldFloorHeight) ==
    IF checkWallCollision(m, cam.Position, WALL_RADIUS)
    THEN [end |-> wallBranch(cam, stepOldPosition, oldFloorHeight),
          hitWall |-> TRUE, newFloorHeight |-> NOT_FOUND]
    ELSE floorLogic(cam, stepOldPosition, oldFloorHeight,
                    getFloorHeight(m, cam.Position, TRUE))

\* what an iteration saw and did: stepOldPosition, oldFloorHeight, the position
\* after the WASD movement, the results of the wall test and of the floor query
\* (when made), and the position and cached floor height it ends with
substepRecord(stepOldPosition, oldFloorHeight, moved, res) ==
    [stepOldPosition |-> stepOldPosition, oldFloorHeight |-> oldFloorHeight,
     moved |-> moved.Position, hitWall |-> res.hitWall,
     newFloorHeight |-> res.newFloorHeight, Position |-> res.end.Position,
     currentFloorHeight |-> res.end.currentFloorHeight]

\* the part of an iteration after the WASD movement: if (!noclip) { ... }
substepMoved(m, nc, stepOldPosition, oldFloorHeight, moved) ==
    substepRecord(stepOldPosition, oldFloorHeight, moved,
                  IF ~nc
                  THEN collideAndSnap(m, moved, stepOldPosition, oldFloorHeight)
                  ELSE [end |-> [Position |-> moved.Position,
                                 currentFloorHeight |-> oldFloorHeight],
                        hitWall |-> FALSE, newFloorHeight |-> NOT_FOUND])

\* substep running the collision and floor logic whether or not noclip is on
substep_alwaysCollide(m, cam, nc, keys, subDeltaTime, currentFloorHeight) ==
    substepMoved(m, FALSE, cam.Position, currentFloorHeight,
                 moveWASD(cam, keys, subDeltaTime))

\* one iteration of the substep loop
substep(m, cam, nc, keys, subDeltaTime, currentFloorHeight) ==
    substepMoved(m, nc, cam.Position, currentFloorHeight, moveWASD(cam, keys, subDeltaTime))

\* for (int i = 0; i < steps; i++): the records of iterations i .. steps-1
RECURSIVE substepLoop(_, _, _, _, _, _, _)
RECURSIVE substepNext(_, _, _, _, _, _, _)
substepNext(m, cam, nc, keys, subDeltaTime, s, i) ==
    <<s>> \o substepLoop(m, [cam EXCEPT !.Position = s.Position], nc, keys,
                         subDeltaTime, s.currentFloorHeight, i + 1)

substepLoop(m, cam, nc, keys, subDeltaTime, currentFloorHeight, i) ==
    IF i >= steps THEN <<>>
    ELSE substepNext(m, cam, nc, keys, subDeltaTime,
                     substep(m, cam, nc, keys, subDeltaTime, currentFloorHeight), i)

\* the toggle following the level of the key: it flips in every frame with V down
toggleNoclip_onLevel(nc, vp, vDown) ==
    IF vDown THEN [noclip |-> ~nc, vPressed |-> TRUE] ELSE [noclip |-> nc, vPressed |-> FALSE]

\* "Noclip (V)": the new values of noclip and vPressed
toggleNoclip(nc, vp, vDown) ==
    IF vDown
    THEN IF ~vp THEN [noclip |-> ~nc, vPressed |-> TRUE] ELSE [noclip |-> nc, vPressed |-> vp]
    ELSE [noclip |-> nc, vPressed |-> FALSE]

\* "Cache da altura inicial"
floorOrFeet(cam, h) == IF h < VOID_BELOW THEN cam.Position.y - EYE_HEIGHT ELSE h

initialFloorHeight(m, cam, nc) ==
    IF ~nc THEN floorOrFeet(cam, getFloorHeight(m, cam.Position, TRUE)) ELSE NOT_FOUND

\* failsafe without the eye-height offset
failsafe_noOffset(m, Position) ==
    IF Position.y < FAILSAFE_Y THEN m.startPosition ELSE Position

\* "A prova de falhas"
failsafe(m, Position) ==
    IF Position.y < FAILSAFE_Y
    THEN [m.startPosition EXCEPT !.y = @ + EYE_HEIGHT]
    ELSE Position

\* checkExit measuring the distance in space, height included
checkExit_withHeight(m, won, Position) ==
    IF ~won
    THEN LET dx == Position.x - m.exitPosition.x
             dy == Position.y - m.exitPosition.y
             dz == Position.z - m.exitPosition.z
         IN IF dx * dx + dy * dy + dz * dz < EXIT_RADIUS * EXIT_RADIUS THEN TRUE ELSE won
    ELSE won

\* checkExit recomputing the flag every frame
checkExit_recompute(m, won, Position) ==
    LET dx == Position.x - m.exitPosition.x
        dz == Position.z - m.exitPosition.z
    IN dx * dx + dz * dz < EXIT_RADIUS * EXIT_RADIUS

\* "Verificar chegada ao portao": the new value of victoryAchieved
checkExit(m, won, Position) ==
    IF ~won
    THEN LET dx == Position.x - m.exitPosition.x
             dz == Position.z - m.exitPosition.z
         IN IF dx * dx + dz * dz < EXIT_RADIUS * EXIT_RADIUS THEN TRUE ELSE won
    ELSE won

\* the failsafe raising the spawn point in place, maze.startPosition.y += 50.0f
levelAfter_raiseSpawn(m, Position) ==
    IF Position.y < FAILSAFE_Y THEN [m EXCEPT !.startPosition.y = @ + EYE_HEIGHT] ELSE m

\* the Maze after the call: processInput only calls getFloorHeight and
\* checkWallCollision on it and reads startPosition and exitPosition; the
\* failsafe copies startPosition before adding to the copy
levelAfter(m, Position) == m

\* "Sprint (Shift)": camera.MovementSpeed *= 1.5f
sprint(cam, shift) == IF shift THEN [cam EXCEPT !.MovementSpeed = fdiv(@ * 3, 2)] ELSE cam

\* the end of the call without "camera.MovementSpeed = originalSpeed"
afterSubsteps_keepSprint(m, cam, fast, tg, won, keys, shift, vDown, deltaTime, subDeltaTime, floor0, sub) ==
    [camera |-> [fast EXCEPT !.Position = failsafe(m, sub[steps].Position)],
     maze |-> levelAfter(m, sub[steps].Position),
     noclip |-> tg.noclip,
     vPressed |-> tg.vPressed,
     victoryAchieved |-> checkExit(m, won, failsafe(m, sub[steps].Position)),
     last |-> [kind |-> "frame", start |-> cam.Position, keys |-> keys, shift |-> shift,
               vDown |-> vDown, deltaTime |-> deltaTime, subDeltaTime |-> subDeltaTime,
               speed |-> fast.MovementSpeed, Front |-> cam.Front, Right |-> cam.Right,
               noclip |-> tg.noclip, wonBefore |-> won, floor0 |-> floor0,
               sub |-> sub, afterSteps |-> sub[steps].Position]]

\* the end of the call, after the substeps sub: speed restored, failsafe, exit
\* check; with the record of the call
afterSubsteps(m, cam, fast, tg, won, keys, shift, vDown, deltaTime, subDeltaTime, floor0, sub) ==
    [camera |-> [fast EXCEPT !.Position = failsafe(m, sub[steps].Position),
                             !.MovementSpeed = cam.MovementSpeed],
     maze |-> levelAfter(m, sub[steps].Position),
     noclip |-> tg.noclip,
     vPressed |-> tg.vPressed,
     victoryAchieved |-> checkExit(m, won, failsafe(m, sub[steps].Position)),
     last |-> [kind |-> "frame", start |-> cam.Position, keys |-> keys, shift |-> shift,
               vDown |-> vDown, deltaTime |-> deltaTime, subDeltaTime |-> subDeltaTime,
               speed |-> fast.MovementSpeed, Front |-> cam.Front, Right |-> cam.Right,
               noclip |-> tg.noclip, wonBefore |-> won, floor0 |-> floor0,
               sub |-> sub, afterSteps |-> sub[steps].Position]]

\* the substep loop, from the cached floor height floor0
physicsSubsteps(m, cam, fast, tg, won, keys, shift, vDown, deltaTime, subDeltaTime, floor0) ==
    afterSubsteps(m, cam, fast, tg, won, keys, shift, vDown, deltaTime, subDeltaTime, floor0,
                  substepLoop(m, fast, tg.noclip, keys, subDeltaTime, floor0, 0))

\* the call after the key toggles: fast is the camera at sprint speed, tg the
\* new noclip and vPressed
physics(m, cam, fast, tg, won, keys, shift, vDown, deltaTime, subDeltaTime) ==
    physicsSubsteps(m, cam, fast, tg, won, keys, shift, vDown, deltaTime, subDeltaTime,
                    initialFloorHeight(m, fast, tg.noclip))

\* the whole call: the new camera, globals and static, and the record of the call
processInput(m, cam, nc, vp, won, keys, shift, vDown, deltaTime) ==
    physics(m, cam, sprint(cam, shift), toggleNoclip(nc, vp, vDown), won, keys, shift,
            vDown, deltaTime, fdiv(deltaTime, steps))

----------------------------------------------------------------------------
(* the inputs *)

MaxFrames == 2

\* A level around the authored exit.  Lengths in length units:
\*   faces 1, 2  the main floor, x in -6..6, z in -290..-260, at y = 0
\*   face 3      a block 6 high on the +x side (a ledge: more than MAX_STEP_HEIGHT)
\*   face 4      a step 2 high on the -x side
\*   face 5      a wall in the plane z = -278, in front of the spawn point
\*   face 6      the bottom of a pit at y = -72
\*   face 7      a quad, which loadModel skips
Level1 ==
    [parsed |-> TRUE,
     faces |-> << <<V3(-6, 0, -290), V3(-6, 0, -260), V3(6, 0, -290)>>,
                  <<V3(6, 0, -260), V3(6, 0, -290), V3(-6, 0, -260)>>,
                  <<V3(6, 6, -282), V3(6, 6, -258), V3(12, 6, -270)>>,
                  <<V3(-6, 2, -282), V3(-12, 2, -270), V3(-6, 2, -258)>>,
                  <<V3(-12, 0, -278), V3(12, 0, -278), V3(12, 19, -278)>>,
                  <<V3(9, -72, -263), V3(9, -72, -260), V3(12, -72, -263)>>,
                  <<V3(40, 0, -280), V3(40, 0, -260), V3(60, 0, -260), V3(60, 0, -280)>> >>]

GameFiles == {Level1}

\* what the uninitialised members may hold
Garbage == {[startPosition |-> V3(0, 0, 0), exitPosition |-> V3(0, 0, 0)],
            [startPosition |-> V3(7, -90, -3), exitPosition |-> V3(1, 2, 3)]}

\* a game level has floors above its lowest point, so the constructor assigns
\* both members and nothing of the game depends on what they held before
GameGarbage == {[startPosition |-> V3(0, 0, 0), exitPosition |-> V3(0, 0, 0)]}

KeySets == {{}, {"W"}, {"S"}, {"A"}, {"D"}, {"W", "D"}}

DeltaTimes == {8}

\* Front and Right as updateCameraVectors leaves them, in fifths:
\* yaw -90 and pitch 0 (the initial look); yaw 0 and pitch 53 degrees (up)
Looks == {[Front |-> V3(0, 0, -5), Right |-> V3(5, 0, 0)],
          [Front |-> V3(3, 4, 0), Right |-> V3(0, 0, 5)]}

----------------------------------------------------------------------------
(* the game: main() up to the render loop, then one processInput per frame *)

Init ==
    /\ file \in GameFiles
    /\ garbage \in GameGarbage
    /\ maze = Maze(file, garbage)
    /\ camera = [Position |-> maze.startPosition,
                 Front |-> V3(0, 0, -5), Right |-> V3(5, 0, 0),
                 MovementSpeed |-> fdiv(maze.modelSize, 20)]
    /\ noclip = FALSE
    /\ vPressed = FALSE
    /\ victoryAchieved = FALSE
    /\ pc = "input"
    /\ last = [kind |-> "none"]
    /\ frames = 0

\* the render loop up to and including processInput(window, camera, deltaTime, maze)
Frame ==
    /\ pc = "input"
    /\ frames < MaxFrames
    /\ \E keys \in KeySets, shift \in BOOLEAN, vDown \in BOOLEAN, deltaTime \in DeltaTimes :
          \E r \in {processInput(maze, camera, noclip, vPressed, victoryAchieved,
                                 keys, shift, vDown, deltaTime)} :
             /\ maze' = r.maze
             /\ camera' = r.camera
             /\ noclip' = r.noclip
             /\ vPressed' = r.vPressed
             /\ victoryAchieved' = r.victoryAchieved
             /\ last' = r.last @@ [noclipBefore |-> noclip, vPressedBefore |-> vPressed,
                                   speedBefore |-> camera.MovementSpeed]
    /\ pc' = "events"
    /\ frames' = frames + 1
    /\ UNCHANGED <<file, garbage>>

\* the rest of the iteration: rendering, then glfwPollEvents, where
\* mouse_callback -> Camera::ProcessMouseMovement may turn the camera
PollEvents ==
    /\ pc = "events"
    /\ \E look \in Looks :
          camera' = [camera EXCEPT !.Front = look.Front, !.Right = look.Right]
    /\ pc' = "input"
    /\ last' = [kind |-> "none"]
    /\ UNCHANGED <<file, garbage, maze, noclip, vPressed, victoryAchieved, frames>>

Next == Frame \/ PollEvents

Spec == Init /\ [][Next]_vars

----------------------------------------------------------------------------
(* the constructor on other files, and floor queries at chosen points *)

NoFile == [parsed |-> FALSE, faces |-> <<>>]       \* LoadObj fails

EmptyFile == [parsed |-> TRUE, faces |-> <<>>]

QuadsOnly ==
    [parsed |-> TRUE,
     faces |-> << <<V3(0, 0, 0), V3(0, 0, 8), V3(8, 0, 8), V3(8, 0, 0)>> >>]

\* a flat level: its only floor lies at the lowest point of the mesh
Flat ==
    [parsed |-> TRUE,
     faces |-> << <<V3(0, 0, 0), V3(0, 0, 6), V3(8, 0, 0)>>,
                  <<V3(8, 0, 6), V3(8, 0, 0), V3(0, 0, 6)>> >>]

\* faces around the floor threshold:
\*   face 1  normal.y = 0.70000004 in exact arithmetic, 0.7f once rounded
\*   face 2  normal.y = 0.70014 (5 / sqrt 51)
\*   face 3  a steep ramp, normal.y = 0.6
\*   face 4  a collinear (degenerate) face: the normal is NaN
\*   face 5  a ceiling, normal.y = -1
\*   face 6  a level floor, normal.y = 1
\*   face 7  a quad
Slopes ==
    [parsed |-> TRUE,
     faces |-> << <<V3(0, 0, 0), V3(29, 30, 25), V3(25, 25, -30)>>,
                  <<V3(0, 20, 0), V3(5, 19, 0), V3(0, 21, -1)>>,
                  <<V3(0, 0, 0), V3(0, 4, 3), V3(3, 0, 0)>>,
                  <<V3(0, 0, 0), V3(1, 2, 3), V3(2, 4, 6)>>,
                  <<V3(0, 9, 0), V3(4, 9, 0), V3(0, 9, 4)>>,
                  <<V3(10, 5, 0), V3(10, 5, 6), V3(16, 5, 0)>>,
                  <<V3(0, 0, 0), V3(0, 0, 8), V3(8, 0, 8), V3(8, 0, 0)>> >>]

\* floors one above the other, the lower one first in the file:
\*   face 1  a floor at y = 1 over x, z in 0..9
\*   face 2  a floor at y = 4 over the same triangle
\*   face 3  a gentle ramp from y = 1 to y = 4, apart from the others
\*   face 4  a wall reaching down to y = 0
Stacked ==
    [parsed |-> TRUE,
     faces |-> << <<V3(0, 1, 0), V3(0, 1, 9), V3(9, 1, 0)>>,
                  <<V3(0, 4, 0), V3(0, 4, 9), V3(9, 4, 0)>>,
                  <<V3(20, 1, 0), V3(20, 1, 9), V3(29, 4, 0)>>,
                  <<V3(0, 0, -3), V3(9, 0, -3), V3(9, 5, -3)>> >>]

\* a floor and two walls standing on it:
\*   face 1  a level floor
\*   face 2  an upright wall whose plane is oblique to the axes, 3x = 2z
\*   face 3  an upright wall in the plane z = -3
Oblique ==
    [parsed |-> TRUE,
     faces |-> << <<V3(0, 0, 0), V3(0, 0, 12), V3(12, 0, 0)>>,
                  <<V3(0, 0, 0), V3(0, 12, 0), V3(8, 0, 12)>>,
                  <<V3(0, 0, -3), V3(8, 0, -3), V3(8, 8, -3)>> >>]

LoadFiles == {Level1, NoFile, EmptyFile, QuadsOnly, Flat, Slopes, Stacked, Oblique}

\* the integer points from a to b in n equal steps (n divides the differences)
Segment(a, b, n) ==
    {V3(a.x + (k * (b.x - a.x)) \div n, 0, a.z + (k * (b.z - a.z)) \div n) : k \in 0..n}

\* query points for a maze: the border of the safety rectangle, the diagonal its
\* two triangles share, points of the mesh's own bounding box, the centroids of
\* the floor triangles, and points outside
QueryPoints(m) ==
    IF ~(Finite3(m.minBounds) /\ Finite3(m.maxBounds))
    THEN {V3(0, 0, 0), V3(3, 0, -4), V3(-20, 0, 20)}
    ELSE LET lo == V3(m.minBounds.x - expand, 0, m.minBounds.z - expand)
             hi == V3(m.maxBounds.x + expand, 0, m.maxBounds.z + expand)
             g  == GCD(hi.x - lo.x, hi.z - lo.z)
         IN {V3(x, 0, z) : x \in {lo.x, hi.x}, z \in lo.z..hi.z}
            \cup {V3(x, 0, z) : x \in lo.x..hi.x, z \in {lo.z, hi.z}}
            \cup Segment(V3(lo.x, 0, hi.z), V3(hi.x, 0, lo.z), g)
            \cup {V3(x, 0, z) : x \in {m.minBounds.x, m.maxBounds.x},
                                z \in {m.minBounds.z, m.maxBounds.z}}
            \cup {V3(m.floorTriangles[i].centroid.x, 0, m.floorTriangles[i].centroid.z) :
                     i \in 1..Len(m.floorTriangles)}
            \cup {V3(lo.x - 1, 0, lo.z), V3(hi.x, 0, hi.z + 1), V3(hi.x + 7, 0, hi.z + 7)}

\* sphere centres for a maze: for every wall triangle its corners, a quarter of
\* the way along both edges from the first corner where that is a grid point,
\* and those points moved off the plane along the axes; two fixed points for a
\* maze without walls
WallPoints(m) ==
    LET on == UNION {LET t == m.wallTriangles[i]
                         d == Add3(Sub3(t.v1, t.v0), Sub3(t.v2, t.v0))
                     IN {t.v0, t.v1, t.v2}
                        \cup (IF d.x % 4 = 0 /\ d.y % 4 = 0 /\ d.z % 4 = 0
                              THEN {Add3(t.v0, V3(d.x \div 4, d.y \div 4, d.z \div 4))}
                              ELSE {}) :
                     i \in 1..Len(m.wallTriangles)}
    IN IF on = {} THEN {V3(0, 0, 0), V3(3, 2, -4)}
       ELSE {Add3(p, d) : p \in {q \in on : Finite3(q)},
                          d \in {V3(0, 0, 0), V3(0, 0, 1), V3(0, 0, -2), V3(3, 0, 0)}}

Radii == {0, WALL_RADIUS, 2}

LoadInit ==
    /\ file \in LoadFiles
    /\ garbage \in Garbage
    /\ maze = Maze(file, garbage)
    /\ camera = [Position |-> maze.startPosition,
                 Front |-> V3(0, 0, -5), Right |-> V3(5, 0, 0),
                 MovementSpeed |-> fdiv(maze.modelSize, 20)]
    /\ noclip = FALSE
    /\ vPressed = FALSE
    /\ victoryAchieved = FALSE
    /\ pc = "input"
    /\ last = [kind |-> "none"]
    /\ frames = 0

\* a call of maze.getFloorHeight(pos, checkSlope)
QueryFloor ==
    /\ pc = "input"
    /\ \E pos \in QueryPoints(maze), checkSlope \in BOOLEAN :
          last' = [kind |-> "floor", pos |-> pos, checkSlope |-> checkSlope,
                   result |-> getFloorHeight(maze, pos, checkSlope)]
    /\ pc' = "query"
    /\ UNCHANGED <<file, garbage, maze, camera, noclip, vPressed, victoryAchieved, frames>>

\* a call of maze.checkWallCollision(position, radius)
QueryWall ==
    /\ pc = "input"
    /\ \E position \in WallPoints(maze), radius \in Radii :
          last' = [kind |-> "wall", pos |-> position, radius |-> radius,
                   result |-> checkWallCollision(maze, position, radius)]
    /\ pc' = "query"
    /\ UNCHANGED <<file, garbage, maze, camera, noclip, vPressed, victoryAchieved, frames>>

\* (x, z) triangles handed to barycentric: with coincident corners, with the
\* corners on one line, and with an area
BaryTriangles ==
    {<<V2(0, 0), V2(0, 0), V2(0, 0)>>,
     <<V2(2, 3), V2(2, 3), V2(7, -1)>>,
     <<V2(0, 0), V2(3, 6), V2(6, 12)>>,
     <<V2(-4, 1), V2(0, 1), V2(9, 1)>>,
     <<V2(5, 5), V2(1, 1), V2(5, 5)>>,
     <<V2(0, 0), V2(0, 6), V2(9, 0)>>,
     <<V2(0, 0), V2(1, 0), V2(0, 1)>>}

BaryPoints == {V2(0, 0), V2(2, 3), V2(3, 2), V2(1, 1), V2(-5, 40)}

\* a call of barycentric(p, a, b, c, u, v, w)
QueryBarycentric ==
    /\ pc = "input"
    /\ \E p \in BaryPoints, t \in BaryTriangles :
          last' = [kind |-> "barycentric", p |-> p, a |-> t[1], b |-> t[2], c |-> t[3],
                   result |-> barycentric(p, t[1], t[2], t[3])]
    /\ pc' = "query"
    /\ UNCHANGED <<file, garbage, maze, camera, noclip, vPressed, victoryAchieved, frames>>

\* the call returns to its caller
QueryReturn ==
    /\ pc = "query"
    /\ pc' = "input"
    /\ last' = [kind |-> "none"]
    /\ UNCHANGED <<file, garbage, maze, camera, noclip, vPressed, victoryAchieved, frames>>

LoadNext == QueryFloor \/ QueryWall \/ QueryBarycentric \/ QueryReturn

LoadSpec == LoadInit /\ [][LoadNext]_vars

----------------------------------------------------------------------------
(* properties of the locomotion integrator, over the record of the frame *)

IsFrame == last.kind = "frame"

\* a floor is found under p: the query does not return the not-found sentinel
FloorFound(p) == getFloorHeight(maze, p, TRUE) >= VOID_BELOW

\* the displacement of one substep, from the keys held and the look of the frame
Displacement(f) ==
    LET velocity == f.speed * f.subDeltaTime
        zero == V3(0, 0, 0)
        w == IF "W" \in f.keys THEN scaled(f.Front, velocity) ELSE zero
        s == IF "S" \in f.keys THEN scaled(f.Front, velocity) ELSE zero
        a == IF "A" \in f.keys THEN scaled(f.Right, velocity) ELSE zero
        d == IF "D" \in f.keys THEN scaled(f.Right, velocity) ELSE zero
    IN Add3(Sub3(Sub3(w, s), a), d)

\* substep i of the frame passed the wall test and found a floor at its candidate
PastWallAndVoid(i) ==
    /\ ~checkWallCollision(maze, last.sub[i].moved, WALL_RADIUS)
    /\ last.sub[i].newFloorHeight >= VOID_BELOW

\* the rise of the floor from the start of substep i to its candidate
Rise(i) == last.sub[i].newFloorHeight - last.sub[i].oldFloorHeight

\* C1: with noclip off, a substep whose candidate position collides with a wall
\* (checkWallCollision with radius 5.0) ends at the position it started from,
\* in x, y and z.
C1_WallRevertsWholeStep ==
    (IsFrame /\ ~last.noclip) =>
        \A i \in 1..steps :
            checkWallCollision(maze, last.sub[i].moved, WALL_RADIUS)
                => last.sub[i].Position = last.sub[i].stepOldPosition

\* a colliding substep that had moved along both x and z, and was undone
C1_Witness ==
    /\ IsFrame /\ ~last.noclip
    /\ \E i \in 1..steps :
          /\ checkWallCollision(maze, last.sub[i].moved, WALL_RADIUS)
          /\ last.sub[i].moved.x # last.sub[i].stepOldPosition.x
          /\ last.sub[i].moved.z # last.sub[i].stepOldPosition.z
          /\ last.sub[i].Position = last.sub[i].stepOldPosition

\* C2: with noclip off, a substep whose candidate has no floor is reverted to the
\* position it started from; and a frame with noclip off that starts over a
\* floor ends every substep, and the frame, over a floor (so a session that
\* starts over a floor and never enables noclip always has a floor under the actor).
C2_VoidRevertsAndFloorStays ==
    (IsFrame /\ ~last.noclip) =>
        /\ \A i \in 1..steps :
              (/\ ~checkWallCollision(maze, last.sub[i].moved, WALL_RADIUS)
               /\ last.sub[i].newFloorHeight < VOID_BELOW)
                  => last.sub[i].Position = last.sub[i].stepOldPosition
        /\ FloorFound(last.start) =>
              \A p \in {last.sub[i].Position : i \in 1..steps} \cup {camera.Position} :
                  FloorFound(p)

\* a substep that stepped off the safety floor and was undone
C2_Witness ==
    /\ IsFrame /\ ~last.noclip
    /\ FloorFound(last.start)
    /\ \E i \in 1..steps :
          /\ ~checkWallCollision(maze, last.sub[i].moved, WALL_RADIUS)
          /\ getFloorHeight(maze, last.sub[i].moved, TRUE) = NOT_FOUND
          /\ last.sub[i].moved # last.sub[i].stepOldPosition
          /\ last.sub[i].Position = last.sub[i].stepOldPosition

\* C3: with noclip off, a substep whose candidate floor is more than 15 units
\* above the floor at its start is blocked: the actor ends the substep at its
\* starting x and z and at its starting height, whatever the look direction.
C3_LedgeRevertsHeight ==
    (IsFrame /\ ~last.noclip) =>
        \A i \in 1..steps :
            (PastWallAndVoid(i) /\ Rise(i) > MAX_STEP_HEIGHT)
                => last.sub[i].Position = last.sub[i].stepOldPosition

\* C4: with noclip off, after an accepted substep (no wall collision, floor
\* found, rise at most 15) the actor is at the candidate's x and z and its y is
\* the floor height there plus the eye height 50.
C4_AcceptedStepSnaps ==
    (IsFrame /\ ~last.noclip) =>
        \A p \in {last.sub[i].Position :
                     i \in {j \in 1..steps : PastWallAndVoid(j) /\ Rise(j) <= MAX_STEP_HEIGHT}} :
            /\ \E i \in 1..steps : p.x = last.sub[i].moved.x /\ p.z = last.sub[i].moved.z
            /\ p.y = getFloorHeight(maze, p, TRUE) + EYE_HEIGHT

\* an accepted substep onto a higher floor whose raw movement had another height
C4_Witness ==
    /\ IsFrame /\ ~last.noclip
    /\ \E i \in 1..steps :
          /\ PastWallAndVoid(i)
          /\ Rise(i) > 0 /\ Rise(i) <= MAX_STEP_HEIGHT
          /\ last.sub[i].moved.y # last.sub[i].Position.y
          /\ last.sub[i].Position.y = last.sub[i].stepOldPosition.y + Rise(i)
          /\ last.sub[i].Position.y
                 = getFloorHeight(maze, last.sub[i].moved, TRUE) + EYE_HEIGHT

\* C5: with noclip on, every substep ends at its start position plus the W/A/S/D
\* displacement of the keys held, also when the candidate collides with a wall
\* or has no floor under it.
C5_NoclipRawMovement ==
    (IsFrame /\ last.noclip) =>
        /\ last.sub[1].stepOldPosition = last.start
        /\ \A i \in 1..steps :
              /\ last.sub[i].Position = Add3(last.sub[i].stepOldPosition, Displacement(last))
              /\ i > 1 => last.sub[i].stepOldPosition = last.sub[i - 1].Position
        /\ last.afterSteps = last.sub[steps].Position

\* a noclip frame that went through a wall and then out over the void
C5_Witness ==
    /\ IsFrame /\ last.noclip
    /\ \E i \in 1..steps :
          /\ checkWallCollision(maze, last.sub[i].Position, WALL_RADIUS)
          /\ last.sub[i].Position # last.sub[i].stepOldPosition
    /\ \E j \in 1..steps :
          /\ ~FloorFound(last.sub[j].Position)
          /\ last.sub[j].Position.y = last.sub[j].stepOldPosition.y

\* C6: a frame whose substeps leave the actor's y below -300 ends with the actor
\* at maze.startPosition + (0, 50, 0); otherwise the frame ends where the
\* substeps left the actor.
C6_Failsafe ==
    IsFrame =>
        IF last.afterSteps.y < FAILSAFE_Y
        THEN camera.Position = Add3(maze.startPosition, V3(0, EYE_HEIGHT, 0))
        ELSE camera.Position = last.afterSteps

\* a frame that fell to the safety floor and was relocated
C6_Witness ==
    /\ IsFrame
    /\ last.afterSteps.y < FAILSAFE_Y
    /\ camera.Position # last.afterSteps
    /\ camera.Position = Add3(maze.startPosition, V3(0, EYE_HEIGHT, 0))

WithinExitRadius(p) ==
    (p.x - maze.exitPosition.x) * (p.x - maze.exitPosition.x)
        + (p.z - maze.exitPosition.z) * (p.z - maze.exitPosition.z)
    < EXIT_RADIUS * EXIT_RADIUS

\* C7: the victory flag starts false, becomes true only at the end of a frame
\* that leaves the actor within the exit radius, and once true it stays true.
C7_VictoryMonotonic ==
    /\ victoryAchieved = FALSE
    /\ [][/\ victoryAchieved => victoryAchieved'
          /\ (~victoryAchieved /\ frames' # frames)
                => (victoryAchieved' <=> WithinExitRadius(camera'.Position))
          /\ (~victoryAchieved /\ frames' = frames) => ~victoryAchieved']_vars

\* the flag still set after a frame that started with it set and ended far from the exit
C7_Witness ==
    /\ IsFrame
    /\ last.wonBefore
    /\ victoryAchieved
    /\ ~WithinExitRadius(camera.Position)

----------------------------------------------------------------------------
(* properties of the constructor and of the floor query (LoadSpec) *)

IsTriangular(f) == Len(f) = 3

\* the faces the loader ingests, in file order, and their triangles
Ingested == IF file.parsed THEN SelectSeq(file.faces, IsTriangular) ELSE <<>>

IngestedTriangles == [i \in 1..Len(Ingested) |-> faceTriangle(Ingested[i])]

NormalYAbove(t) == f32gt(t.normal.y, FLOOR_NORMAL_Y)

NormalYNotAbove(t) == ~f32gt(t.normal.y, FLOOR_NORMAL_Y)

NormalYAtThreshold(t) == t.normal.y[2] # NaN /\ f32norm(t.normal.y) = f32norm(FLOOR_NORMAL_Y)

\* the floor triangles that came from the mesh: all but the two added last
MeshFloors == SubSeq(maze.floorTriangles, 1, Len(maze.floorTriangles) - 2)

Range(q) == {q[i] : i \in 1..Len(q)}

\* C8: the loader partitions the ingested triangles: a triangle is a floor
\* exactly when its normal's y is strictly above 0.7f and a wall otherwise, so
\* none is in both lists or in neither, and one whose normal.y is exactly 0.7f
\* is a wall.
C8_FloorWallPartition ==
    /\ MeshFloors = SelectSeq(IngestedTriangles, NormalYAbove)
    /\ maze.wallTriangles = SelectSeq(IngestedTriangles, NormalYNotAbove)
    /\ \A t \in Range(IngestedTriangles) :
          /\ (t \in Range(MeshFloors)) # (t \in Range(maze.wallTriangles))
          /\ NormalYAtThreshold(t) => t \in Range(maze.wallTriangles)

\* a mesh with floors and walls, one of the walls having normal.y exactly 0.7f
\* and another a NaN normal
C8_Witness ==
    /\ MeshFloors # <<>>
    /\ \E t \in Range(maze.wallTriangles) : NormalYAtThreshold(t)
    /\ \E t \in Range(maze.wallTriangles) : t.normal.y[2] = NaN
    /\ \E t \in Range(MeshFloors) : f32lt(t.normal.y, f32(1))

\* the vertices of the ingested faces, and their bounding box
MeshVertices == UNION {Range(Ingested[i]) : i \in 1..Len(Ingested)}

LeastOf(S) == IF S = {} THEN FLT_MAX ELSE CHOOSE a \in S : \A b \in S : a <= b

GreatestOf(S) == IF S = {} THEN -FLT_MAX ELSE CHOOSE a \in S : \A b \in S : a >= b

MeshMin ==
    V3(LeastOf({p.x : p \in MeshVertices}), LeastOf({p.y : p \in MeshVertices}),
       LeastOf({p.z : p \in MeshVertices}))

MeshMax ==
    V3(GreatestOf({p.x : p \in MeshVertices}), GreatestOf({p.y : p \in MeshVertices}),
       GreatestOf({p.z : p \in MeshVertices}))

\* the expanded rectangle: the mesh's x/z bounding box grown by 100.0f per side
ExpandedLo == V2(FAdd(MeshMin.x, -expand), FAdd(MeshMin.z, -expand))

ExpandedHi == V2(FAdd(MeshMax.x, expand), FAdd(MeshMax.z, expand))

InExpanded(p) ==
    /\ ExpandedLo.x <= p.x /\ p.x <= ExpandedHi.x
    /\ ExpandedLo.y <= p.z /\ p.z <= ExpandedHi.y

SafetyTriangles ==
    SubSeq(maze.floorTriangles, Len(maze.floorTriangles) - 1, Len(maze.floorTriangles))

Corners(t) == {V2(t.v0.x, t.v0.z), V2(t.v1.x, t.v1.z), V2(t.v2.x, t.v2.z)}

\* twice the signed area of (a, b, p) in the x/z plane
Orient(a, b, p) == (b.x - a.x) * (p.y - a.y) - (b.y - a.y) * (p.x - a.x)

\* p lies in the closed triangle t, in exact arithmetic
Covers(t, p) ==
    LET a  == V2(t.v0.x, t.v0.z)
        b  == V2(t.v1.x, t.v1.z)
        c  == V2(t.v2.x, t.v2.z)
        q  == V2(p.x, p.z)
        o1 == Orient(a, b, q)
        o2 == Orient(b, c, q)
        o3 == Orient(c, a, q)
    IN (o1 >= 0 /\ o2 >= 0 /\ o3 >= 0) \/ (o1 <= 0 /\ o2 <= 0 /\ o3 <= 0)

\* C9: after construction the last two floor triangles are the safety floor:
\* appended after every mesh floor, normal (0, 1, 0), every vertex at the
\* mesh's lowest y, corners at the corners of the expanded rectangle, which the
\* two together cover; minBounds/maxBounds stay those of the mesh alone.
C9_SafetyFloor ==
    /\ Len(maze.floorTriangles) = Len(SelectSeq(IngestedTriangles, NormalYAbove)) + 2
    /\ MeshFloors = SelectSeq(IngestedTriangles, NormalYAbove)
    /\ \A t \in Range(SafetyTriangles) :
          /\ t.normal = V3(f32(0), f32(1), f32(0))
          /\ {t.v0.y, t.v1.y, t.v2.y} = {MeshMin.y}
          /\ Corners(t) \subseteq {V2(x, z) : x \in {ExpandedLo.x, ExpandedHi.x},
                                              z \in {ExpandedLo.y, ExpandedHi.y}}
    /\ Corners(SafetyTriangles[1]) \cup Corners(SafetyTriangles[2])
          = {V2(x, z) : x \in {ExpandedLo.x, ExpandedHi.x},
                        z \in {ExpandedLo.y, ExpandedHi.y}}
    /\ (last.kind = "floor" /\ MeshVertices # {} /\ InExpanded(last.pos))
          => \E t \in Range(SafetyTriangles) : Covers(t, last.pos)
    /\ maze.minBounds = MeshMin
    /\ maze.maxBounds = MeshMax

\* a mesh with floors of its own above its lowest point, queried at a point
\* of the margin that only the second safety triangle covers
C9_Witness ==
    /\ MeshFloors # <<>>
    /\ MeshMin.y < MeshMax.y
    /\ last.kind = "floor"
    /\ InExpanded(last.pos)
    /\ last.pos.x < MeshMin.x
    /\ ~Covers(SafetyTriangles[1], last.pos)
    /\ Covers(SafetyTriangles[2], last.pos)

\* C10: for a non-empty mesh, getFloorHeight never answers the sentinel at a
\* point whose (x, z) lies in the expanded bounding rectangle, border and
\* shared diagonal included.
C10_FloorInsideExpandedBounds ==
    (last.kind = "floor" /\ MeshVertices # {} /\ InExpanded(last.pos))
        => last.result # NOT_FOUND

\* the floor set in the opposite order
Reverse(q) == [i \in 1..Len(q) |-> q[Len(q) + 1 - i]]

\* the weights of p in the (x, z) projection of floor triangle t
WeightsIn(t, p) ==
    barycentric(V2(p.x, p.z), V2(t.v0.x, t.v0.z), V2(t.v1.x, t.v1.z), V2(t.v2.x, t.v2.z))

Contains(t, p) ==
    f32ge0(WeightsIn(t, p).u) /\ f32ge0(WeightsIn(t, p).v) /\ f32ge0(WeightsIn(t, p).w)

Walkable(t, checkSlope) == ~(checkSlope /\ f32lt(t.normal.y, MAX_WALKABLE_SLOPE))

\* u * v0.y + v * v1.y + w * v2.y
HeightIn(t, p) ==
    toUnits(f32add(f32add(f32mul(WeightsIn(t, p).u, world(t.v0.y)),
                          f32mul(WeightsIn(t, p).v, world(t.v1.y))),
                   f32mul(WeightsIn(t, p).w, world(t.v2.y))))

\* the heights of the walkable floor triangles that contain p
HitHeights(p, checkSlope) ==
    {HeightIn(t, p) : t \in {s \in Range(maze.floorTriangles) :
                                Walkable(s, checkSlope) /\ Contains(s, p)}}

\* C11: getFloorHeight answers the greatest of the heights interpolated in the
\* walkable floor triangles whose projection contains the query point (the
\* sentinel when there is none), and the same with the floor set reversed.
C11_MaxOverFloors ==
    last.kind = "floor" =>
        /\ last.result = IF HitHeights(last.pos, last.checkSlope) = {} THEN NOT_FOUND
                         ELSE GreatestOf(HitHeights(last.pos, last.checkSlope))
        /\ getFloorHeight([maze EXCEPT !.floorTriangles = Reverse(@)],
                          last.pos, last.checkSlope) = last.result

\* a point under three floors at different heights, the highest of them neither
\* the first nor the last of the floor set
C11_Witness ==
    /\ last.kind = "floor"
    /\ Cardinality(HitHeights(last.pos, last.checkSlope)) = 3
    /\ HeightIn(maze.floorTriangles[1], last.pos) < last.result
    /\ HeightIn(maze.floorTriangles[Len(maze.floorTriangles)], last.pos) < last.result

FiniteTriangle(t) == Finite3(t.v0) /\ Finite3(t.v1) /\ Finite3(t.v2)

\* p lies outside the projection of every floor triangle, in exact arithmetic
OutsideEvery(tris, p) == \A t \in Range(tris) : FiniteTriangle(t) => ~Covers(t, p)

\* C12 (first half): a query strictly outside the projection of every floor
\* triangle, the safety floor included, answers the sentinel.
C12_OutsideNotFound ==
    (last.kind = "floor" /\ OutsideEvery(maze.floorTriangles, last.pos))
        => last.result = NOT_FOUND

\* C12: a query strictly outside the projection of every floor triangle answers
\* the sentinel; a query outside every mesh floor triangle but inside the
\* expanded rectangle answers the height of the safety floor, minBounds.y.
C12_OutsideOrSafetyFloor ==
    /\ C12_OutsideNotFound
    /\ (last.kind = "floor" /\ MeshVertices # {} /\ InExpanded(last.pos)
            /\ OutsideEvery(MeshFloors, last.pos))
          => last.result = maze.minBounds.y

----------------------------------------------------------------------------
(* the sphere test against the walls, over the record of a wall query *)

\* the plane normal of a triangle in lowest integer terms, in exact arithmetic
PlaneNormal(t) ==
    LET n == cross(Sub3(t.v1, t.v0), Sub3(t.v2, t.v0))
        g == GCD(GCD(n.x, n.y), n.z)
    IN IF g = 0 THEN n ELSE V3(n.x \div g, n.y \div g, n.z \div g)

HasPlane(t) == PlaneNormal(t) # V3(0, 0, 0)

\* c lies exactly on the plane of t
OnPlane(t, c) == HasPlane(t) /\ dot3(PlaneNormal(t), Sub3(c, t.v0)) = 0

\* c, a point of the plane of t, lies strictly inside t
InsideTriangle(t, c) ==
    LET u == Sub3(t.v1, t.v0)
        v == Sub3(t.v2, t.v0)
        w == Sub3(c, t.v0)
        D == dot3(u, v) * dot3(u, v) - dot3(u, u) * dot3(v, v)
        sN == dot3(u, v) * dot3(w, v) - dot3(v, v) * dot3(w, u)
        tN == dot3(u, v) * dot3(w, u) - dot3(u, u) * dot3(w, v)
    IN D < 0 /\ sN < 0 /\ tN < 0 /\ sN + tN > D

\* the plane of t is farther than r from c
PlaneFarther(t, c, r) ==
    LET n == PlaneNormal(t)
        d == dot3(n, Sub3(c, t.v0))
    IN HasPlane(t) /\ d * d > r * r * dot3(n, n)

\* C13: a wall query answers true whenever the centre lies exactly on the plane
\* of a wall triangle at a point inside it, whatever the radius (0 included),
\* and answers false when every wall plane is farther from the centre than the
\* radius
C13_WallCollision ==
    last.kind = "wall" =>
        /\ (\E t \in Range(maze.wallTriangles) :
                OnPlane(t, last.pos) /\ InsideTriangle(t, last.pos)) => last.result
        /\ (\A t \in Range(maze.wallTriangles) :
                HasPlane(t) => PlaneFarther(t, last.pos, last.radius)) => ~last.result

\* C13, the part about distance alone: with every wall plane farther from the
\* centre than the radius, the answer is false
C13_FartherNeverCollides ==
    last.kind = "wall" =>
        ((\A t \in Range(maze.wallTriangles) :
             HasPlane(t) => PlaneFarther(t, last.pos, last.radius)) => ~last.result)

----------------------------------------------------------------------------
(* floor queries at the centroid of a floor triangle *)

\* twice the signed area of the (x, z) projection of t
ProjectedArea2(t) ==
    (t.v1.x - t.v0.x) * (t.v2.z - t.v0.z) - (t.v1.z - t.v0.z) * (t.v2.x - t.v0.x)

NonDegenerate(t) == FiniteTriangle(t) /\ ProjectedArea2(t) # 0

\* the centroid of t is a grid point, so that t.centroid holds it exactly
GridCentroid(t) ==
    /\ (t.v0.x + t.v1.x + t.v2.x) % 3 = 0
    /\ (t.v0.y + t.v1.y + t.v2.y) % 3 = 0
    /\ (t.v0.z + t.v1.z + t.v2.z) % 3 = 0

\* the query of the record is at the centroid of t
AtCentroidOf(t) ==
    /\ last.kind = "floor"
    /\ NonDegenerate(t) /\ GridCentroid(t)
    /\ last.pos.x = t.centroid.x /\ last.pos.z = t.centroid.z

TOLERANCE == <<8589935, -33>>      \* 1e-3

\* the height interpolated in t at p, in world units and single precision
HeightInWorld(t, p) ==
    f32add(f32add(f32mul(WeightsIn(t, p).u, world(t.v0.y)),
                  f32mul(WeightsIn(t, p).v, world(t.v1.y))),
           f32mul(WeightsIn(t, p).w, world(t.v2.y)))

\* C14: for every non-degenerate floor triangle, the floor query at the (x, z)
\* of its centroid answers that triangle's own centroid Y.
C14_CentroidHeight ==
    \A t \in Range(maze.floorTriangles) :
        AtCentroidOf(t) => last.result = t.centroid.y

\* C14, amended: the query at the centroid of a non-degenerate floor triangle
\* finds that triangle, whose interpolated height is its centroid Y to within
\* 1e-3, and answers the greatest height among the floor triangles containing
\* the point: never less than the centroid Y, and more than it only where a
\* higher floor triangle contains the point too.
C14_CentroidHeightOrHigher ==
    \A t \in Range(maze.floorTriangles) :
        AtCentroidOf(t) =>
            /\ Contains(t, last.pos)
            /\ f32le(f32abs(f32sub(HeightInWorld(t, last.pos), world(t.centroid.y))),
                     TOLERANCE)
            /\ last.result >= t.centroid.y
            /\ last.result > t.centroid.y =>
                   \E s \in Range(maze.floorTriangles) :
                       /\ s # t /\ Contains(s, last.pos)
                       /\ HeightIn(s, last.pos) = last.result

\* the centroid of a sloping floor triangle with only lower floors beneath it:
\* the answer is its centroid Y
C14_Witness ==
    \E t \in Range(maze.floorTriangles) :
        /\ AtCentroidOf(t)
        /\ t.v0.y # t.v2.y
        /\ last.result = t.centroid.y
        /\ \E s \in Range(maze.floorTriangles) : s # t /\ Contains(s, last.pos)
        /\ \A s \in Range(maze.floorTriangles) :
              (s # t /\ Contains(s, last.pos)) => HeightIn(s, last.pos) < last.result

----------------------------------------------------------------------------
(* triangles without area *)

\* the corners of an (x, z) triangle lie on one line: the denominator is 0
Collinear2(a, b, c) == (b.x - a.x) * (c.y - a.y) - (b.y - a.y) * (c.x - a.x) = 0

\* floor triangles without area in the (x, z) projection
DegenerateFloors ==
    {[v0 |-> V3(0, 7, 0), v1 |-> V3(3, 7, 6), v2 |-> V3(6, 7, 12),
      normal |-> V3(f32(0), f32(1), f32(0)), centroid |-> V3(3, 7, 6)],
     [v0 |-> V3(0, 60, -270), v1 |-> V3(0, 60, -270), v2 |-> V3(0, 60, -270),
      normal |-> V3(f32(0), f32(1), f32(0)), centroid |-> V3(0, 60, -270)]}

\* q with e put in before its element i (at the end for i = Len(q) + 1)
InsertAt(q, i, e) == SubSeq(q, 1, i - 1) \o <<e>> \o SubSeq(q, i, Len(q))

DegenerateWall(t) == ~HasPlane(t)

HitsWall(t) == checkTriangleCollision(last.pos, last.radius, t.v0, t.v1, t.v2)

\* C15: a triangle whose barycentric denominator is below 1e-6 in magnitude is
\* never a hit.  barycentric gives u = v = w = -1 for it; a floor query answers
\* the same with such a triangle put anywhere into the floor set;
\* checkTriangleCollision is false for it, and a wall query answers the same as
\* with the walls without area left out.
C15_DegenerateSkipped ==
    /\ (last.kind = "barycentric" /\ Collinear2(last.a, last.b, last.c))
          => last.result = [u |-> f32(-1), v |-> f32(-1), w |-> f32(-1)]
    /\ last.kind = "floor" =>
          \A d \in DegenerateFloors, i \in {1, Len(maze.floorTriangles) + 1} :
              getFloorHeight([maze EXCEPT !.floorTriangles = InsertAt(@, i, d)],
                             last.pos, last.checkSlope) = last.result
    /\ last.kind = "wall" =>
          /\ \A t \in Range(maze.wallTriangles) : DegenerateWall(t) => ~HitsWall(t)
          /\ checkWallCollision([maze EXCEPT !.wallTriangles = SelectSeq(@, HasPlane)],
                                last.pos, last.radius) = last.result

\* a wall query that passes a wall without area and hits a wall after it
C15_Witness ==
    /\ last.kind = "wall"
    /\ last.result
    /\ \E i \in 1..Len(maze.wallTriangles) :
          /\ DegenerateWall(maze.wallTriangles[i])
          /\ \A j \in 1..i : ~HitsWall(maze.wallTriangles[j])

\* barycentric on corners on one line, at a point of that line
C15_WitnessBarycentric ==
    /\ last.kind = "barycentric"
    /\ Collinear2(last.a, last.b, last.c) /\ Collinear2(last.a, last.b, last.p)
    /\ last.a # last.b /\ last.result.u = f32(-1)

----------------------------------------------------------------------------
(* a frame that starts closer to a wall than a substep is long *)

\* the straight move from p to q passes through wall triangle t strictly between
\* its ends, in exact arithmetic: p and q lie on opposite sides of the plane and
\* the crossing point lies strictly inside t
CrossesWall(t, p, q) ==
    LET n == PlaneNormal(t)
        s0 == dot3(n, Sub3(p, t.v0))
        s1 == dot3(n, Sub3(q, t.v0))
        K == Abs(s0 - s1)
        u == Sub3(t.v1, t.v0)
        v == Sub3(t.v2, t.v0)
        \* K times the offset of the crossing point from v0
        w == V3(K * (p.x - t.v0.x) + Abs(s0) * (q.x - p.x),
                K * (p.y - t.v0.y) + Abs(s0) * (q.y - p.y),
                K * (p.z - t.v0.z) + Abs(s0) * (q.z - p.z))
        D == dot3(u, v) * dot3(u, v) - dot3(u, u) * dot3(v, v)
        sN == dot3(u, v) * dot3(w, v) - dot3(v, v) * dot3(w, u)
        tN == dot3(u, v) * dot3(w, u) - dot3(u, u) * dot3(w, v)
    IN /\ HasPlane(t)
       /\ (s0 > 0 /\ s1 < 0) \/ (s0 < 0 /\ s1 > 0)
       /\ D < 0 /\ sN < 0 /\ tN < 0 /\ sN + tN > K * D

\* the frame of the record had forward input only, noclip off, and a wall ahead
\* nearer than the move of one substep
WallWithinSubstep ==
    /\ IsFrame /\ ~last.noclip /\ last.keys = {"W"}
    /\ \E t \in Range(maze.wallTriangles) : CrossesWall(t, last.start, last.sub[1].moved)

\* C16: a frame with forward input and noclip off that starts nearer to the wall
\* it faces than one substep travels ends, after its 4 substeps, exactly where
\* it started, whatever the speed and the frame time.
C16_WallStopsFrame == WallWithinSubstep => last.afterSteps = last.start

----------------------------------------------------------------------------
(* the failsafe in play on foot *)

\* the frame of the record belongs to play with noclip off throughout (the V
\* key is up and noclip is off, as they were at the start), and a floor is found
\* under the position it starts from and under the position every substep ends at
OnFootOverFloors ==
    /\ IsFrame /\ ~last.noclip /\ ~last.vDown
    /\ FloorFound(last.start)
    /\ \A i \in 1..steps : FloorFound(last.sub[i].Position)

\* C17: in play from the spawn point with noclip off, on a level where a floor
\* is found under every (x, z) the actor reaches, the actor is never below -300
\* at the failsafe check, so the failsafe never sends it back to the spawn point.
C17_FailsafeNeverTriggers == OnFootOverFloors => last.afterSteps.y >= FAILSAFE_Y

----------------------------------------------------------------------------
(* the spawn point and the exit, as the constructor leaves them *)

\* the floor triangles that the spawn loop does not skip as safety floor:
\* centroid.y > minBounds.y + 1.0f
Eligible ==
    {i \in 1..Len(maze.floorTriangles) :
        /\ IsFinite(maze.minBounds.y)
        /\ 5 * maze.floorTriangles[i].centroid.y > 5 * maze.minBounds.y + 1}

\* the square of the horizontal distance of the centroid of floor triangle i
\* from the origin
OriginDist2(i) ==
    maze.floorTriangles[i].centroid.x * maze.floorTriangles[i].centroid.x
        + maze.floorTriangles[i].centroid.z * maze.floorTriangles[i].centroid.z

\* the first of the eligible floor triangles nearest to the origin
Nearest ==
    CHOOSE i \in Eligible :
        \A j \in Eligible :
            OriginDist2(i) < OriginDist2(j) \/ (OriginDist2(i) = OriginDist2(j) /\ i <= j)

\* C18: the spawn position is the centroid of the floor triangle, among those
\* with centroid.y > minBounds.y + 1, whose centroid is horizontally nearest to
\* the origin, raised by the eye height; among equally near ones, of the first.
C18_SpawnNearestOrigin ==
    Eligible # {} =>
        maze.startPosition =
            [maze.floorTriangles[Nearest].centroid EXCEPT !.y = @ + EYE_HEIGHT]

\* two eligible floor triangles equally near to the origin with different
\* centroids, and a third farther away
C18_Witness ==
    /\ Eligible # {}
    /\ \E j \in Eligible :
          /\ j > Nearest /\ OriginDist2(j) = OriginDist2(Nearest)
          /\ maze.floorTriangles[j].centroid # maze.floorTriangles[Nearest].centroid
    /\ \E j \in Eligible : OriginDist2(j) > OriginDist2(Nearest)
    /\ maze.startPosition.y = maze.floorTriangles[Nearest].centroid.y + EYE_HEIGHT

\* p is the centroid of a floor triangle of the mesh, raised by the eye height
OnMeshFloor(p) ==
    \E t \in Range(MeshFloors) : p = [t.centroid EXCEPT !.y = @ + EYE_HEIGHT]

\* C19: when the mesh has at least one floor triangle of its own, the spawn
\* position and the exit position are each the centroid of one of the mesh's
\* floor triangles raised by the eye height, also on a flat level whose floor
\* lies at the lowest point of the mesh.
C19_SpawnAndExitOnMeshFloor ==
    MeshFloors # <<>> => (OnMeshFloor(maze.startPosition) /\ OnMeshFloor(maze.exitPosition))

\* C19, for the spawn position alone and a mesh with a floor above its lowest point
C19_SpawnOnMeshFloor ==
    (\E i \in Eligible : i <= Len(MeshFloors)) => OnMeshFloor(maze.startPosition)

\* C20: when the level has no floor triangle but the safety floor (an empty or
\* unparseable mesh included), the constructor completes and leaves
\* startPosition and exitPosition as default construction left them: nothing
\* is added to them and nothing else is assigned.
C20_NoFloorKeepsDefaults ==
    MeshFloors = <<>> =>
        /\ maze.startPosition = garbage.startPosition
        /\ maze.exitPosition = garbage.exitPosition

----------------------------------------------------------------------------
(* a file that cannot be read *)

\* C21 (the queries): on a missing or unparseable file every floor query
\* answers the sentinel and every wall query answers no collision.
C21_UnparsedQueriesFindNothing ==
    ~file.parsed =>
        /\ last.kind = "floor" => last.result = NOT_FOUND
        /\ last.kind = "wall" => ~last.result

\* C21: on a missing or unparseable file the constructed Maze has an empty
\* floor set and an empty wall set, every floor query answers the sentinel and
\* every wall query answers no collision.
C21_UnparsedEmptySets ==
    /\ ~file.parsed => (maze.floorTriangles = <<>> /\ maze.wallTriangles = <<>>)
    /\ C21_UnparsedQueriesFindNothing

----------------------------------------------------------------------------
(* the level data during play *)

\* the queries the frame of the record made, made again on m, answer as recorded
SameAnswers(m, f) ==
    /\ ~f.noclip =>
          f.floor0 = initialFloorHeight(m, [Position |-> f.start], FALSE)
    /\ \A i \in 1..steps :
          ~f.noclip =>
              /\ f.sub[i].hitWall = checkWallCollision(m, f.sub[i].moved, WALL_RADIUS)
              /\ ~f.sub[i].hitWall =>
                    f.sub[i].newFloorHeight = getFloorHeight(m, f.sub[i].moved, TRUE)

----------------------------------------------------------------------------
(* the wall query as a condition on one triangle *)

\* for wall triangle t and centre c, in single precision as the function
\* computes them: the edges, the unit normal, the distance of c from the plane
EdgeU(t) == world3(Sub3(t.v1, t.v0))

EdgeV(t) == world3(Sub3(t.v2, t.v0))

UnitNormal(t) == normalize(crossf(EdgeU(t), EdgeV(t)))

PlaneDistance(t, c) == dotf(sub3f(world3(c), world3(t.v0)), UnitNormal(t))

\* the projection of c on the plane, from v0
Projected(t, c) ==
    sub3f(sub3f(world3(c), scale3(UnitNormal(t), PlaneDistance(t, c))), world3(t.v0))

Denominator(t) ==
    f32sub(f32mul(dotf(EdgeU(t), EdgeV(t)), dotf(EdgeU(t), EdgeV(t))),
           f32mul(dotf(EdgeU(t), EdgeU(t)), dotf(EdgeV(t), EdgeV(t))))

\* the barycentric coordinates s and t of the projection
CoordS(t, c) ==
    f32div(f32sub(f32mul(dotf(EdgeU(t), EdgeV(t)), dotf(Projected(t, c), EdgeV(t))),
                  f32mul(dotf(EdgeV(t), EdgeV(t)), dotf(Projected(t, c), EdgeU(t)))),
           Denominator(t))

CoordT(t, c) ==
    f32div(f32sub(f32mul(dotf(EdgeU(t), EdgeV(t)), dotf(Projected(t, c), EdgeU(t))),
                  f32mul(dotf(EdgeU(t), EdgeU(t)), dotf(Projected(t, c), EdgeV(t)))),
           Denominator(t))

\* |distance| <= r, s >= -0.01, t >= -0.01, s + t <= 1.01
WithinReach(t, c, r) ==
    /\ HasPlane(t)
    /\ f32le(f32abs(PlaneDistance(t, c)), world(r))
    /\ f32ge(CoordS(t, c), EPSILON)
    /\ f32ge(CoordT(t, c), EPSILON)
    /\ f32le(f32add(CoordS(t, c), CoordT(t, c)), f32sub(f32(1), EPSILON))

\* the same condition in exact arithmetic
WithinReachExactly(t, c, r) ==
    LET n == PlaneNormal(t)
        u == Sub3(t.v1, t.v0)
        v == Sub3(t.v2, t.v0)
        w == Sub3(c, t.v0)
        d == dot3(n, w)
        D == dot3(u, v) * dot3(u, v) - dot3(u, u) * dot3(v, v)
        sN == dot3(u, v) * dot3(w, v) - dot3(v, v) * dot3(w, u)
        tN == dot3(u, v) * dot3(w, u) - dot3(u, u) * dot3(w, v)
        tol == (-D) \div 100
    IN /\ HasPlane(t)
       /\ d * d <= r * r * dot3(n, n)
       /\ sN <= tol /\ tN <= tol /\ D - sN - tN <= tol

\* C23: a wall query answers true exactly when some wall triangle has the
\* centre within the radius of its plane and the projection of the centre at
\* coordinates s >= -0.01, t >= -0.01, s + t <= 1.01 (distance and coordinates
\* as the function computes them, and for the radius the game uses and above
\* also as exact numbers), and it answers the same on the wall set reversed.
C23_WallCollisionIff ==
    last.kind = "wall" =>
        /\ last.result =
              (\E t \in Range(maze.wallTriangles) : WithinReach(t, last.pos, last.radius))
        /\ last.radius >= WALL_RADIUS =>
              (last.result = (\E t \in Range(maze.wallTriangles) :
                                 WithinReachExactly(t, last.pos, last.radius)))
        /\ checkWallCollision([maze EXCEPT !.wallTriangles = Reverse(@)],
                              last.pos, last.radius) = last.result

\* a sphere that touches the plane of the second wall of the maze, inside it,
\* and is out of reach of the first
C23_Witness ==
    /\ last.kind = "wall" /\ last.result /\ last.radius = WALL_RADIUS
    /\ Len(maze.wallTriangles) >= 2
    /\ ~WithinReach(maze.wallTriangles[1], last.pos, last.radius)
    /\ WithinReach(maze.wallTriangles[2], last.pos, last.radius)
    /\ f32ge(f32abs(PlaneDistance(maze.wallTriangles[2], last.pos)), world(last.radius))

----------------------------------------------------------------------------
(* the exit check *)

\* the square of the horizontal distance between p and the exit
ExitDist2(p) ==
    (p.x - maze.exitPosition.x) * (p.x - maze.exitPosition.x)
        + (p.z - maze.exitPosition.z) * (p.z - maze.exitPosition.z)

\* C24: in a frame that starts with the flag false, the flag becomes true
\* exactly when the horizontal (x, z) distance between the actor, where the
\* substeps and the failsafe left it, and the exit is below 50, whatever the
\* actor's height and whether or not noclip is on.
C24_VictoryByHorizontalDistance ==
    (IsFrame /\ ~last.wonBefore) =>
        /\ camera.Position = failsafe(maze, last.afterSteps)
        /\ victoryAchieved = (ExitDist2(camera.Position) < EXIT_RADIUS * EXIT_RADIUS)

\* victory in a frame with noclip on that ends farther than 50 below the exit
C24_Witness ==
    /\ IsFrame /\ ~last.wonBefore /\ last.noclip
    /\ victoryAchieved
    /\ maze.exitPosition.y - camera.Position.y > EXIT_RADIUS

\* a frame that starts with the flag false and ends away from the exit
C24_WitnessAway ==
    /\ IsFrame /\ ~last.wonBefore /\ ~victoryAchieved
    /\ ExitDist2(camera.Position) >= EXIT_RADIUS * EXIT_RADIUS

----------------------------------------------------------------------------
(* slope enforcement *)

\* C25: on every Maze the constructor builds, a floor query answers the same
\* with and without slope enforcement, every floor triangle having a normal.y
\* (above 0.7 for a mesh floor, 1 for the safety floor) that passes the
\* walkable-slope test.
C25_SlopeCheckIsNeutral ==
    /\ \A t \in Range(maze.floorTriangles) : Walkable(t, TRUE)
    /\ \A t \in Range(MeshFloors) : f32gt(t.normal.y, FLOOR_NORMAL_Y)
    /\ \A t \in Range(SafetyTriangles) : t.normal.y = f32(1)
    /\ last.kind = "floor" =>
          getFloorHeight(maze, last.pos, ~last.checkSlope) = last.result

\* a query with slope enforcement answered from a sloping mesh floor
C25_Witness ==
    /\ last.kind = "floor" /\ last.checkSlope /\ last.result # NOT_FOUND
    /\ \E t \in Range(MeshFloors) :
          /\ Contains(t, last.pos) /\ HeightIn(t, last.pos) = last.result
          /\ f32lt(t.normal.y, f32(1))
          /\ t.v0.y # t.v1.y

----------------------------------------------------------------------------
(* walls and the end of a substep *)

HitsAnyWall(p) == checkWallCollision(maze, p, WALL_RADIUS)

\* C26: in a frame with noclip off that starts at a position clear of every wall
\* (checkWallCollision with radius 5 false), the position at the end of every
\* substep is clear of every wall too, the substeps that snap the height to the
\* floor and those blocked by the step-height limit included.
C26_SubstepsEndClearOfWalls ==
    (IsFrame /\ ~last.noclip /\ ~HitsAnyWall(last.start)) =>
        \A i \in 1..steps : ~HitsAnyWall(last.sub[i].Position)

----------------------------------------------------------------------------
(* where the failsafe puts the actor *)

\* C27: a frame in which the failsafe fires ends with the actor at the position
\* it was given at level start, maze.startPosition, which is the centroid of the
\* spawn floor triangle raised by one eye height.
C27_FailsafeBackToStart ==
    (IsFrame /\ last.afterSteps.y < FAILSAFE_Y) =>
        /\ camera.Position = maze.startPosition
        /\ Eligible # {}
        /\ camera.Position =
              [maze.floorTriangles[Nearest].centroid EXCEPT !.y = @ + EYE_HEIGHT]

----------------------------------------------------------------------------
(* the cached floor height *)

\* C28: in a frame with noclip off that starts over a floor, the cached floor
\* height at the start of each of the 4 substeps (and at the end of the last)
\* is what getFloorHeight answers at the actor's position then, whether the
\* substeps before were accepted, reverted at a wall or a void, or blocked by
\* the step height.
C28_CachedFloorHeightIsCurrent ==
    (IsFrame /\ ~last.noclip /\ FloorFound(last.start)) =>
        \A i \in 1..steps :
            /\ last.sub[i].oldFloorHeight =
                  getFloorHeight(maze, last.sub[i].stepOldPosition, TRUE)
            /\ last.sub[i].currentFloorHeight =
                  getFloorHeight(maze, last.sub[i].Position, TRUE)

\* a frame in which an accepted substep changed the floor height and a later
\* substep was reverted at a void, with a substep still to come
C28_Witness ==
    /\ IsFrame /\ ~last.noclip /\ FloorFound(last.start)
    /\ \E i, j \in 1..(steps - 1) :
          /\ i < j
          /\ last.sub[i].currentFloorHeight # last.sub[i].oldFloorHeight
          /\ ~last.sub[j].hitWall /\ last.sub[j].newFloorHeight < VOID_BELOW
          /\ last.sub[j + 1].oldFloorHeight = last.sub[i].currentFloorHeight

----------------------------------------------------------------------------
(* the noclip toggle *)

----------------------------------------------------------------------------
(* sprint *)

\* C30: with Shift held the frame moves at 1.5 times the speed the camera had
\* before the call in every one of its substeps, without Shift at that speed;
\* either way the call leaves camera.MovementSpeed as it found it, so the speed
\* stays what main set it to however many frames sprinted.
C30_SprintDoesNotAccumulate ==
    /\ camera.MovementSpeed = fdiv(maze.modelSize, 20)
    /\ IsFrame =>
          /\ camera.MovementSpeed = last.speedBefore
          /\ last.speed = IF last.shift THEN fdiv(last.speedBefore * 3, 2)
                                        ELSE last.speedBefore
          /\ \A i \in 1..steps :
                last.sub[i].moved = Add3(last.sub[i].stepOldPosition, Displacement(last))

\* a sprinting frame moving forward, after an earlier frame has moved the actor
C30_Witness ==
    /\ IsFrame /\ frames = 2
    /\ last.shift /\ "W" \in last.keys
    /\ last.speed > last.speedBefore
    /\ last.start # maze.startPosition
    /\ last.sub[1].moved # last.sub[1].stepOldPosition

====
